---- MODULE Spec2Model ----
(***************************************************************************)
(* Rust code generation of serde-generate (src/serde-generate/src/rust.rs):*)
(* one run of output_with_external_dependencies_and_comments over a        *)
(* registry of container formats.                                          *)
(*                                                                         *)
(* The output sink is the sequence `out` of the writes made so far, one    *)
(* record per write!/writeln! call of the code.  The text of a write is a  *)
(* sequence of tokens (strings) whose concatenation is the written text,   *)
(* so that a rendered type such as Option<Box<Node>> is the token sequence *)
(* <<"Option<", "Box<", "Node", ">", ">">>.  The sink is an in-memory      *)
(* buffer: its writes do not fail.                                         *)
(***************************************************************************)
EXTENDS Integers, Sequences, FiniteSets, TLC

VARIABLES
    registry,              \* &Registry: container name -> ContainerFormat
    external_definitions,  \* &ExternalDefinitions: module name -> Vec of names
    comments,              \* &DocComments: qualified path -> doc text
    with_derive_macros,    \* bool
    pc,                    \* position of the run in the code
    entries,               \* the analyzer's order (Vec of names)
    idx,                   \* position of the emission loop in entries (from 1)
    vpos,                  \* position of output_variants' loop (expected_index)
    known_sizes,           \* HashSet of names
    out                    \* what has been written to the sink

vars == <<registry, external_definitions, comments, with_derive_macros,
          pc, entries, idx, vpos, known_sizes, out>>

inputs == <<registry, external_definitions, comments, with_derive_macros>>

(***************************************************************************)
(* Bounds of the model.                                                    *)
(***************************************************************************)
\* Deepest nesting of wrappers (Option, Seq, Map, Tuple, TupleArray) around
\* the leaf of a generated field format.
MaxDepth == 2

\* Largest number of entries of the doc-comment index.
MaxComments == 2

(***************************************************************************)
(* serde_reflection::Format, ContainerFormat, VariantFormat, Named.        *)
(* Every Format is a record with the same fields, so that formats of       *)
(* different shapes can be compared.                                       *)
(***************************************************************************)
TypeName(x) == [tag |-> "TypeName", name |-> x, size |-> 0, args |-> <<>>]

Prim(t) == [tag |-> t, name |-> "", size |-> 0, args |-> <<>>]

Option(f) == [tag |-> "Option", name |-> "", size |-> 0, args |-> <<f>>]

SeqOf(f) == [tag |-> "Seq", name |-> "", size |-> 0, args |-> <<f>>]

Map(k, v) == [tag |-> "Map", name |-> "", size |-> 0, args |-> <<k, v>>]

Tuple(fs) == [tag |-> "Tuple", name |-> "", size |-> 0, args |-> fs]

TupleArray(f, n) == [tag |-> "TupleArray", name |-> "", size |-> n, args |-> <<f>>]

Named(n, v) == [name |-> n, value |-> v]

NoVariants == [i \in {} |-> Named("", Prim("Unit"))]

UnitStruct == [tag |-> "UnitStruct", formats |-> <<>>, fields |-> <<>>, variants |-> NoVariants]

NewTypeStruct(f) == [tag |-> "NewTypeStruct", formats |-> <<f>>, fields |-> <<>>, variants |-> NoVariants]

TupleStruct(fs) == [tag |-> "TupleStruct", formats |-> fs, fields |-> <<>>, variants |-> NoVariants]

Struct(fields) == [tag |-> "Struct", formats |-> <<>>, fields |-> fields, variants |-> NoVariants]

Enum(variants) == [tag |-> "Enum", formats |-> <<>>, fields |-> <<>>, variants |-> variants]

VUnit == [tag |-> "Unit", formats |-> <<>>, fields |-> <<>>]

VNewType(f) == [tag |-> "NewType", formats |-> <<f>>, fields |-> <<>>]

VTuple(fs) == [tag |-> "Tuple", formats |-> fs, fields |-> <<>>]

VStruct(fields) == [tag |-> "Struct", formats |-> <<>>, fields |-> fields]

(***************************************************************************)
(* The names of the model, in the order of String's Ord (the order of the  *)
(* keys of a BTreeMap).                                                    *)
(***************************************************************************)
NameOrder == <<"A", "B", "Bytes", "C", "E", "Ghost", "Leaf", "Map", "Node", "Op", "Test">>

Rank(n) == CHOOSE i \in 1..Len(NameOrder) : NameOrder[i] = n

Range(s) == {s[i] : i \in DOMAIN s}

\* The elements of a finite set of names as the sequence a BTreeSet iterates.
RECURSIVE Sorted(_)
Sorted(S) ==
    IF S = {} THEN <<>>
    ELSE LET m == CHOOSE n \in S : \A o \in S : Rank(n) <= Rank(o)
         IN  <<m>> \o Sorted(S \ {m})

RECURSIVE Flatten(_)
Flatten(ss) == IF ss = <<>> THEN <<>> ELSE Head(ss) \o Flatten(Tail(ss))

(***************************************************************************)
(* quote_type, quote_types.  known_sizes is an Option<&HashSet<&str>>.     *)
(* A Variable format makes quote_type panic; the registries of this model  *)
(* are finalized ones, which hold no Variable.                             *)
(***************************************************************************)
None == [some |-> FALSE, set |-> {}]

Some(set) == [some |-> TRUE, set |-> set]

PrimName(tag) ==
    CASE tag = "Unit" -> "()"
      [] tag = "Bool" -> "bool"
      [] tag = "U8" -> "u8"
      [] tag = "U32" -> "u32"
      [] tag = "U64" -> "u64"
      [] tag = "Str" -> "String"
      [] tag = "Bytes" -> "Bytes"

\* Whether a TypeName(x) is rendered as Box<x>.
NeedsBox_IfKnown(known, x) == known.some /\ x \in known.set

NeedsBox(known, x) == known.some /\ x \notin known.set

\* The known_sizes that quote_type passes on for the element of a Seq and
\* for the key and the value of a Map.
ElementKnownSizes_Passed(known) == known

ElementKnownSizes(known) == None

RECURSIVE quote_type(_, _)
RECURSIVE quote_types(_, _)
quote_type(format, known) ==
    CASE format.tag = "TypeName" ->
            IF NeedsBox(known, format.name)
            THEN <<"Box<", format.name, ">">>
            ELSE <<format.name>>
      [] format.tag = "Option" ->
            <<"Option<">> \o quote_type(format.args[1], known) \o <<">">>
      [] format.tag = "Seq" ->
            <<"Vec<">> \o quote_type(format.args[1], ElementKnownSizes(known)) \o <<">">>
      [] format.tag = "Map" ->
            <<"Map<">> \o quote_type(format.args[1], ElementKnownSizes(known)) \o <<", ">>
                \o quote_type(format.args[2], ElementKnownSizes(known)) \o <<">">>
      [] format.tag = "Tuple" ->
            <<"(">> \o quote_types(format.args, known) \o <<")">>
      [] format.tag = "TupleArray" ->
            <<"[">> \o quote_type(format.args[1], known)
                \o <<"; ", ToString(format.size), "]">>
      [] OTHER -> <<PrimName(format.tag)>>

quote_types(formats, known) ==
    IF formats = <<>> THEN <<>>
    ELSE IF Len(formats) = 1 THEN quote_type(formats[1], known)
    ELSE quote_type(formats[1], known) \o <<", ">> \o quote_types(Tail(formats), known)

(***************************************************************************)
(* The output sink: one record per write!/writeln! call.  kind and path    *)
(* say which element of the registry the write belongs to; toks is the     *)
(* written text.                                                           *)
(***************************************************************************)
Write(kind, path, toks) == [kind |-> kind, path |-> path, toks |-> toks]

RECURSIVE Spaces(_)
Spaces(n) == IF n = 0 THEN "" ELSE " " \o Spaces(n - 1)

RECURSIVE Join(_, _)
Join(strs, sep) ==
    IF strs = <<>> THEN <<>>
    ELSE IF Len(strs) = 1 THEN <<strs[1]>>
    ELSE <<strs[1], sep>> \o Join(Tail(strs), sep)

(***************************************************************************)
(* output_comment: a write only when the qualified name is a key of the    *)
(* doc-comment index.                                                      *)
(***************************************************************************)
output_comment(docs, indentation, qualified_name) ==
    IF qualified_name \in DOMAIN docs
    THEN <<Write("comment", qualified_name,
                 <<"\n", Spaces(indentation), "/// ", docs[qualified_name]>>)>>
    ELSE <<>>

(***************************************************************************)
(* output_preamble.                                                        *)
(***************************************************************************)
ModuleOrder == <<"", "ext", "other">>

ExternalNames(defs) == UNION {Range(defs[m]) : m \in DOMAIN defs}

UseLine(defs, module) ==
    IF module \in DOMAIN defs /\ module # ""
    THEN <<Write("preamble", <<>>,
                 <<"use ", module, "::{">> \o Join(defs[module], ", ") \o <<"};\n">>)>>
    ELSE <<>>

\* Whether the plain alias of Bytes is declared.
NeedsBytesAlias_NoCheck(derive, external_names) == ~derive

NeedsBytesAlias(derive, external_names) == ~derive /\ "Bytes" \notin external_names

output_preamble(derive, defs) ==
    LET external_names == ExternalNames(defs)
    IN  <<Write("preamble", <<>>, <<"#![allow(unused_imports)]\n">>)>>
        \o (IF "Map" \notin external_names
            THEN <<Write("preamble", <<>>, <<"use std::collections::BTreeMap as Map;\n">>)>>
            ELSE <<>>)
        \o (IF derive
            THEN <<Write("preamble", <<>>, <<"use serde::{Serialize, Deserialize};\n">>)>>
            ELSE <<>>)
        \o (IF derive /\ "Bytes" \notin external_names
            THEN <<Write("preamble", <<>>, <<"use serde_bytes::ByteBuf as Bytes;\n">>)>>
            ELSE <<>>)
        \o Flatten([i \in 1..Len(ModuleOrder) |-> UseLine(defs, ModuleOrder[i])])
        \o <<Write("preamble", <<>>, <<"\n">>)>>
        \o (IF NeedsBytesAlias(derive, external_names)
            THEN <<Write("preamble", <<>>, <<"type Bytes = Vec<u8>;\n\n">>)>>
            ELSE <<>>)

(***************************************************************************)
(* output_fields, output_variant.                                          *)
(***************************************************************************)
\* The qualified name of a field: base with the field's name pushed.
FieldQualifiedName_Base(base, field) == base

FieldQualifiedName(base, field) == Append(base, field.name)

output_field(docs, tab, base, field, known) ==
    LET qualified_name == FieldQualifiedName(base, field)
    IN  output_comment(docs, 4, qualified_name)
        \o <<Write("field", qualified_name,
                   <<tab, field.name, ": ">>
                       \o quote_type(field.value, Some(known)) \o <<",\n">>)>>

output_fields(docs, indentation, base, fields, is_pub, known) ==
    LET tab == IF is_pub THEN Spaces(indentation) \o " pub " ELSE Spaces(indentation)
    IN  Flatten([i \in 1..Len(fields) |-> output_field(docs, tab, base, fields[i], known)])

output_variant(docs, base, name, variant, known) ==
    CASE variant.tag = "Unit" ->
            <<Write("variant", <<base, name>>, <<"    ", name, ",\n">>)>>
      [] variant.tag = "NewType" ->
            <<Write("variant", <<base, name>>,
                    <<"    ", name, "(">>
                        \o quote_type(variant.formats[1], Some(known)) \o <<"),\n">>)>>
      [] variant.tag = "Tuple" ->
            <<Write("variant", <<base, name>>,
                    <<"    ", name, "(">>
                        \o quote_types(variant.formats, Some(known)) \o <<"),\n">>)>>
      [] variant.tag = "Struct" ->
            <<Write("variant", <<base, name>>, <<"    ", name, " {\n">>)>>
                \o output_fields(docs, 8, <<base, name>>, variant.fields, FALSE, known)
                \o <<Write("close", <<base, name>>, <<"    },\n">>)>>

(***************************************************************************)
(* output_variants: the iteration of a BTreeMap<u32, _> by increasing      *)
(* key, enumerated from 0.                                                 *)
(***************************************************************************)
RECURSIVE SortedKeys(_)
SortedKeys(S) ==
    IF S = {} THEN <<>>
    ELSE LET m == CHOOSE k \in S : \A o \in S : k <= o
         IN  <<m>> \o SortedKeys(S \ {m})

\* The index found at position expected_index of the iteration.
VariantIndex(variants, expected_index) == SortedKeys(DOMAIN variants)[expected_index + 1]

\* The assert_eq! of output_variants.
IndexAsExpected(variants, expected_index) ==
    VariantIndex(variants, expected_index) = expected_index

(***************************************************************************)
(* output_container: what it writes before it returns (UnitStruct,         *)
(* NewTypeStruct, TupleStruct, Struct) or before it calls output_variants  *)
(* (Enum), and what it writes after output_variants has returned.          *)
(***************************************************************************)
ContainerPrefix(derive, track_visibility) ==
    (IF derive
     THEN <<"#[derive(Serialize, Deserialize, Clone, Debug, PartialEq, PartialOrd)]\n">>
     ELSE <<>>)
    \o (IF track_visibility THEN <<"pub ">> ELSE <<>>)

output_container(docs, derive, track_visibility, name, format, known) ==
    LET prefix == ContainerPrefix(derive, track_visibility)
    IN  output_comment(docs, 0, <<name>>)
        \o CASE format.tag = "UnitStruct" ->
                   <<Write("container", <<name>>, prefix \o <<"struct ", name, ";\n\n">>)>>
             [] format.tag = "NewTypeStruct" ->
                   <<Write("container", <<name>>,
                           prefix \o <<"struct ", name, "(">>
                               \o (IF track_visibility THEN <<"pub ">> ELSE <<>>)
                               \o quote_type(format.formats[1], Some(known))
                               \o <<");\n\n">>)>>
             [] format.tag = "TupleStruct" ->
                   <<Write("container", <<name>>,
                           prefix \o <<"struct ", name, "(">>
                               \o quote_types(format.formats, Some(known))
                               \o <<");\n\n">>)>>
             [] format.tag = "Struct" ->
                   <<Write("container", <<name>>, prefix \o <<"struct ", name, " {\n">>)>>
                       \o output_fields(docs, 4, <<name>>, format.fields,
                                        track_visibility, known)
                       \o <<Write("close", <<name>>, <<"}\n\n">>)>>
             [] format.tag = "Enum" ->
                   <<Write("container", <<name>>, prefix \o <<"enum ", name, " {\n">>)>>

output_container_end(name) == <<Write("close", <<name>>, <<"}\n\n">>)>>

(***************************************************************************)
(* The dependency analyzer (crate::analyzer), modelled from its design     *)
(* description: the graph of hard dependencies over the registry's         *)
(* container names, an error for a TypeName that is neither a registry     *)
(* entry nor an external name, and a Kahn-style sort that appends an       *)
(* unresolved remainder by name.                                           *)
(***************************************************************************)
\* refs[1]: the names referenced by a format in hard-dependency positions,
\* refs[2]: all the names it references.
RECURSIVE FormatRefs(_)
FormatRefs(format) ==
    CASE format.tag = "TypeName" -> <<{format.name}, {format.name}>>
      [] format.tag \in {"Seq", "Map"} ->
            <<{}, UNION {FormatRefs(format.args[i])[2] : i \in DOMAIN format.args}>>
      [] OTHER ->
            <<UNION {FormatRefs(format.args[i])[1] : i \in DOMAIN format.args},
              UNION {FormatRefs(format.args[i])[2] : i \in DOMAIN format.args}>>

\* The formats a container holds: its own and those of its variants.
ContainerFormats(c) ==
    Range(c.formats) \cup {c.fields[i].value : i \in DOMAIN c.fields}
    \cup UNION {Range(c.variants[k].value.formats)
                    \cup {c.variants[k].value.fields[i].value :
                              i \in DOMAIN c.variants[k].value.fields} :
                k \in DOMAIN c.variants}

HardRefs(c) == UNION {FormatRefs(f)[1] : f \in ContainerFormats(c)}

AllRefs(c) == UNION {FormatRefs(f)[2] : f \in ContainerFormats(c)}

get_dependency_map_with_external_dependencies(reg, external_names) ==
    IF \E n \in DOMAIN reg : ~(AllRefs(reg[n]) \subseteq (DOMAIN reg \cup external_names))
    THEN [ok |-> FALSE, map |-> <<>>]
    ELSE [ok |-> TRUE, map |-> [n \in DOMAIN reg |-> HardRefs(reg[n]) \ external_names]]

RECURSIVE KahnSort(_, _)
KahnSort(dependencies, remaining) ==
    LET ready == {n \in remaining : dependencies[n] \cap remaining = {}}
    IN  IF remaining = {} THEN <<>>
        ELSE IF ready = {} THEN Sorted(remaining)
        ELSE Sorted(ready) \o KahnSort(dependencies, remaining \ ready)

best_effort_topological_sort(dependencies) == KahnSort(dependencies, DOMAIN dependencies)

(***************************************************************************)
(* The inputs of a run.                                                    *)
(***************************************************************************)
\* The example of the crate's documentation.
RegistryTest ==
    "Test" :> Struct(<<Named("a", SeqOf(Prim("U64"))),
                       Named("b", Tuple(<<Prim("U32"), Prim("U32")>>))>>)

\* Self-reference, direct and inside a sequence.
RegistryNode ==
    "Node" :> Struct(<<Named("next", TypeName("Node")),
                       Named("children", SeqOf(TypeName("Node")))>>)

\* An enum of every variant shape, referring to itself and to a later name.
RegistryEnum ==
    "E" :> Enum(0 :> Named("A", VUnit)
                @@ 1 :> Named("B", VNewType(TypeName("Leaf")))
                @@ 2 :> Named("C", VStruct(<<Named("x", Prim("U8")),
                                             Named("y", TypeName("E"))>>))
                @@ 3 :> Named("D", VTuple(<<Option(TypeName("E")),
                                            SeqOf(TypeName("E"))>>)))
    @@ "Leaf" :> UnitStruct

\* An enum whose indices have a gap, after a container without dependencies.
RegistryGap ==
    "Leaf" :> UnitStruct
    @@ "Op" :> Enum(0 :> Named("A", VUnit) @@ 2 :> Named("C", VNewType(TypeName("Leaf"))))

\* An enum whose indices do not start at 0.
RegistryShifted ==
    "Op" :> Enum(1 :> Named("A", VUnit) @@ 2 :> Named("B", VUnit))

\* Mutual recursion.
RegistryMutual ==
    "A" :> NewTypeStruct(Option(TypeName("B")))
    @@ "B" :> TupleStruct(<<TypeName("A"), Prim("U8")>>)

\* A reference to a name that is no registry entry.
RegistryDangling ==
    "A" :> NewTypeStruct(TypeName("Ghost"))
    @@ "Test" :> Struct(<<Named("a", SeqOf(TypeName("Ghost")))>>)

\* An acyclic chain against the order of the names.
RegistryChain ==
    "A" :> Struct(<<Named("b", TypeName("B")), Named("c", TupleArray(TypeName("C"), 2))>>)
    @@ "B" :> NewTypeStruct(Tuple(<<TypeName("C"), Prim("Bool")>>))
    @@ "C" :> UnitStruct

\* The built-in names Bytes and Map in use.
RegistryBuiltins ==
    "Test" :> Struct(<<Named("a", Prim("Bytes")),
                       Named("b", Map(Prim("Str"), TypeName("Leaf")))>>)
    @@ "Leaf" :> NewTypeStruct(Prim("Bytes"))

EmptyRegistry == [n \in {} |-> UnitStruct]

HandRegistries ==
    {EmptyRegistry, RegistryTest, RegistryNode, RegistryEnum, RegistryGap,
     RegistryShifted, RegistryMutual, RegistryDangling, RegistryChain, RegistryBuiltins}

\* One format in every position that quote_type is called for.
ProbeRegistry(f) ==
    "A" :> NewTypeStruct(f)
    @@ "Leaf" :> UnitStruct
    @@ "Node" :> Struct(<<Named("x", f)>>)
    @@ "Op" :> Enum(0 :> Named("A", VNewType(f))
                    @@ 1 :> Named("B", VTuple(<<Prim("U8"), f>>))
                    @@ 2 :> Named("C", VStruct(<<Named("y", f)>>)))
    @@ "Test" :> TupleStruct(<<f, Prim("Bool")>>)

Wrappers == {"Option", "Seq", "MapKey", "MapValue", "Tuple", "TupleArray"}

Wrap(w, f) ==
    CASE w = "Option" -> Option(f)
      [] w = "Seq" -> SeqOf(f)
      [] w = "MapKey" -> Map(f, Prim("U8"))
      [] w = "MapValue" -> Map(Prim("Str"), f)
      [] w = "Tuple" -> Tuple(<<Prim("Bool"), f>>)
      [] w = "TupleArray" -> TupleArray(f, 2)

Leaves == {TypeName("Node"), TypeName("Leaf"), Prim("U8")}

RECURSIVE Formats(_)
Formats(depth) ==
    IF depth = 0 THEN Leaves
    ELSE LET S == Formats(depth - 1)
         IN  S \cup {Wrap(w, f) : w \in Wrappers, f \in S}

ProbeRegistries == {ProbeRegistry(f) : f \in Formats(MaxDepth)}

NoExternals == [m \in {} |-> <<>>]

ExternalChoices ==
    {NoExternals,
     "" :> <<"Bytes">>,
     "" :> <<"Map", "Bytes">>,
     "other" :> <<"Leaf">>,
     "" :> <<"Map">> @@ "ext" :> <<"Bytes", "C", "Ghost">>,
     "ext" :> <<"Ghost">> @@ "other" :> <<"E", "Node">>}

ProbeExternalChoices == {NoExternals, "other" :> <<"Leaf">>}

CommentPaths ==
    {<<"Test">>, <<"Test", "a">>, <<"Test", "zz">>, <<"a">>,
     <<"E">>, <<"E", "B">>, <<"E", "C">>, <<"E", "C", "x">>, <<"E", "C", "zz">>,
     <<"Node", "next">>, <<"Op", "C">>}

DocText(path) == "about " \o path[Len(path)]

CommentChoices ==
    {[p \in S |-> DocText(p)] : S \in {T \in SUBSET CommentPaths : Cardinality(T) <= MaxComments}}

NoComments == [p \in {} |-> ""]

(***************************************************************************)
(* The run of output_with_external_dependencies_and_comments.              *)
(***************************************************************************)
Init ==
    /\ \/ /\ registry \in HandRegistries
          /\ external_definitions \in ExternalChoices
          /\ comments \in CommentChoices
          /\ with_derive_macros \in BOOLEAN
       \/ /\ registry \in ProbeRegistries
          /\ external_definitions \in ProbeExternalChoices
          /\ comments = NoComments
          /\ with_derive_macros = FALSE
    /\ pc = "start"
    /\ entries = <<>>
    /\ idx = 0
    /\ vpos = 0
    /\ known_sizes = {}
    /\ out = <<>>

\* The name of the emission loop's iteration.
CurrentName_Reversed == entries[Len(entries) + 1 - idx]

CurrentName == entries[idx]

\* The known set at its creation: the external names.
SeedKnown_Empty(external_names) == {}

SeedKnown(external_names) == external_names

\* The known set handed to output_container for name.
RenderKnown_WithSelf(known, name) == known \cup {name}

RenderKnown(known, name) == known

\* known_sizes.insert(name).
KnownAfterInsert_Forgotten(known, name) == known

KnownAfterInsert(known, name) == known \cup {name}

\* The analysis and the ordering; an error of the analysis is returned.
Analyze ==
    /\ pc = "start"
    /\ LET external_names == ExternalNames(external_definitions)
           dependencies ==
               get_dependency_map_with_external_dependencies(registry, external_names)
       IN  IF dependencies.ok
           THEN /\ entries' = best_effort_topological_sort(dependencies.map)
                /\ pc' = "preamble"
           ELSE /\ entries' = entries
                /\ pc' = "error"
    /\ UNCHANGED <<inputs, idx, vpos, known_sizes, out>>

\* output_preamble, then the known set is made of the external names.
Preamble ==
    /\ pc = "preamble"
    /\ out' = out \o output_preamble(with_derive_macros, external_definitions)
    /\ known_sizes' = SeedKnown(ExternalNames(external_definitions))
    /\ idx' = 1
    /\ pc' = IF entries = <<>> THEN "done" ELSE "container"
    /\ UNCHANGED <<inputs, entries, vpos>>

\* output_container for entries[idx], to its return or to its call of
\* output_variants.
OutputContainer ==
    /\ pc = "container"
    /\ LET name == CurrentName
           format == registry[name]
       IN  /\ out' = out \o output_container(comments, with_derive_macros, TRUE,
                                             name, format,
                                             RenderKnown(known_sizes, name))
           /\ pc' = IF format.tag = "Enum" THEN "variants" ELSE "insert"
    /\ vpos' = 0
    /\ UNCHANGED <<inputs, entries, idx, known_sizes>>

\* One iteration of output_variants: the assertion, then the variant.
OutputVariant ==
    /\ pc = "variants"
    /\ LET name == CurrentName
           variants == registry[name].variants
       IN  /\ vpos < Cardinality(DOMAIN variants)
           /\ IF IndexAsExpected(variants, vpos)
              THEN LET variant == variants[VariantIndex(variants, vpos)]
                   IN  /\ out' = out \o output_comment(comments, 4, <<name, variant.name>>)
                                     \o output_variant(comments, name, variant.name,
                                                       variant.value,
                                                       RenderKnown(known_sizes, name))
                       /\ vpos' = vpos + 1
                       /\ pc' = pc
              ELSE /\ pc' = "panic"
                   /\ UNCHANGED <<out, vpos>>
    /\ UNCHANGED <<inputs, entries, idx, known_sizes>>

\* output_variants has returned: output_container closes the enum.
CloseEnum ==
    /\ pc = "variants"
    /\ vpos = Cardinality(DOMAIN registry[CurrentName].variants)
    /\ out' = out \o output_container_end(CurrentName)
    /\ pc' = "insert"
    /\ UNCHANGED <<inputs, entries, idx, vpos, known_sizes>>

\* known_sizes.insert(name), and the loop goes on or ends.
InsertKnown ==
    /\ pc = "insert"
    /\ known_sizes' = KnownAfterInsert(known_sizes, CurrentName)
    /\ idx' = idx + 1
    /\ pc' = IF idx = Len(entries) THEN "done" ELSE "container"
    /\ UNCHANGED <<inputs, entries, vpos, out>>

Next ==
    \/ Analyze
    \/ Preamble
    \/ OutputContainer
    \/ OutputVariant
    \/ CloseEnum
    \/ InsertKnown

Spec == Init /\ [][Next]_vars

(***************************************************************************)
(* Reading the output back.                                                *)
(***************************************************************************)
ContainerNames == {"A", "B", "C", "E", "Ghost", "Leaf", "Node", "Op", "Test"}

ExternalSet == ExternalNames(external_definitions)

\* The tokens of a write that render types: those after the first "(" or
\* ": " and before the closing token; none when the write has no type.
TypeToks(w) ==
    LET opens == {i \in DOMAIN w.toks : w.toks[i] \in {"(", ": "}}
    IN  IF w.kind \in {"container", "field", "variant"} /\ opens # {}
        THEN SubSeq(w.toks, (CHOOSE i \in opens : \A j \in opens : i <= j) + 1,
                    Len(w.toks) - 1)
        ELSE <<>>

\* The references to containers in rendered types, from left to right, each
\* with whether it is rendered as Box<name>.
RECURSIVE RenderedRefs(_)
RenderedRefs(toks) ==
    IF toks = <<>> THEN <<>>
    ELSE LET n == Len(toks)
             front == RenderedRefs(SubSeq(toks, 1, n - 1))
         IN  IF toks[n] \in ContainerNames
             THEN Append(front, [name |-> toks[n],
                                 boxed |-> n > 1 /\ toks[n - 1] = "Box<"])
             ELSE front

\* The TypeName references of a format, from left to right, each with
\* whether it is in a hard-dependency position: not below a Seq or a Map.
RECURSIVE FormatRefSeq(_, _)
FormatRefSeq(format, hard) ==
    CASE format.tag = "TypeName" -> <<[name |-> format.name, hard |-> hard]>>
      [] format.tag \in {"Seq", "Map"} ->
            Flatten([i \in DOMAIN format.args |-> FormatRefSeq(format.args[i], FALSE)])
      [] OTHER ->
            Flatten([i \in DOMAIN format.args |-> FormatRefSeq(format.args[i], hard)])

\* The variant of an enum with a given name.
VariantNamed(c, v) == c.variants[CHOOSE k \in DOMAIN c.variants : c.variants[k].name = v]

FieldNamed(fields, f) == fields[CHOOSE i \in DOMAIN fields : fields[i].name = f].value

\* The formats that the write w renders, in the order it renders them.
WrittenFormats(w) ==
    LET c == registry[w.path[1]]
    IN  CASE w.kind = "container" -> c.formats
          [] w.kind = "variant" -> VariantNamed(c, w.path[2]).value.formats
          [] w.kind = "field" /\ Len(w.path) = 2 -> <<FieldNamed(c.fields, w.path[2])>>
          [] w.kind = "field" /\ Len(w.path) = 3 ->
                <<FieldNamed(VariantNamed(c, w.path[2]).value.fields, w.path[3])>>
          [] OTHER -> <<>>

ExpectedRefs(w) ==
    Flatten([i \in DOMAIN WrittenFormats(w) |-> FormatRefSeq(WrittenFormats(w)[i], TRUE)])

\* The write w renders every reference of its formats, and every reference in
\* a hard-dependency position as Box<x> exactly when x is not in known.
HardRefsRendered(w, known) ==
    LET expected == ExpectedRefs(w)
        rendered == RenderedRefs(TypeToks(w))
    IN  /\ Len(rendered) = Len(expected)
        /\ \A k \in DOMAIN expected :
              /\ rendered[k].name = expected[k].name
              /\ expected[k].hard => (rendered[k].boxed <=> expected[k].name \notin known)

\* The write w renders no reference below a Seq or a Map as Box<x>.
ElementRefsDirect(w) ==
    LET expected == ExpectedRefs(w)
        rendered == RenderedRefs(TypeToks(w))
    IN  /\ Len(rendered) = Len(expected)
        /\ \A k \in DOMAIN expected :
              /\ rendered[k].name = expected[k].name
              /\ ~expected[k].hard => ~rendered[k].boxed

NewWrites == {i \in DOMAIN out' : i > Len(out)}

\* C1: whenever a container is being rendered, every TypeName(x) in a
\* hard-dependency position of what is written (at any depth not below a Seq
\* or a Map) is rendered as Box<x> if and only if x is not in the known set of
\* that moment, and as x otherwise.
C1_BoxIffUnknown ==
    [][\A i \in NewWrites : HardRefsRendered(out'[i], known_sizes)]_vars

\* A hard reference rendered as Box<x> and another rendered directly, both
\* below an Option, in a finished run.
C1_Witness ==
    /\ pc = "done"
    /\ \E i, j \in DOMAIN out :
          /\ \E k \in DOMAIN ExpectedRefs(out[i]) :
                /\ ExpectedRefs(out[i])[k].hard
                /\ RenderedRefs(TypeToks(out[i]))[k].boxed
                /\ "Option<" \in Range(out[i].toks)
          /\ \E k \in DOMAIN ExpectedRefs(out[j]) :
                /\ ExpectedRefs(out[j])[k].hard
                /\ ~RenderedRefs(TypeToks(out[j]))[k].boxed
                /\ "Option<" \in Range(out[j].toks)

\* C2: every TypeName(x) inside the element of a Seq or the key or value of a
\* Map, at any depth below it, is rendered as x and never as Box<x>, whatever
\* the known set holds.
C2_ElementRefsDirect == \A i \in DOMAIN out : ElementRefsDirect(out[i])

\* A reference below a Seq or a Map, and below an Option, Tuple or array
\* inside it, to a name that is not in the known set, has been written.
C2_Witness ==
    /\ pc \in {"variants", "insert"}
    /\ \E i \in DOMAIN out :
          /\ \E k \in DOMAIN ExpectedRefs(out[i]) :
                /\ ~ExpectedRefs(out[i])[k].hard
                /\ ExpectedRefs(out[i])[k].name \notin known_sizes
                /\ out[i].path[1] = CurrentName
          /\ \E a, b \in DOMAIN out[i].toks :
                /\ a < b
                /\ out[i].toks[a] \in {"Vec<", "Map<"}
                /\ out[i].toks[b] \in {"Option<", "(", "["}

(***************************************************************************)
(* Valid inputs: every reference resolves and the indices of every enum   *)
(* are 0..N-1.                                                             *)
(***************************************************************************)
AllResolved ==
    \A n \in DOMAIN registry : AllRefs(registry[n]) \subseteq (DOMAIN registry \cup ExternalSet)

EnumsContiguous ==
    \A n \in DOMAIN registry :
        DOMAIN registry[n].variants = 0..(Cardinality(DOMAIN registry[n].variants) - 1)

\* The struct fields of container c whose format is f.
FieldsOfFormat(c, f) ==
    {registry[c].fields[i].name :
        i \in {j \in DOMAIN registry[c].fields : registry[c].fields[j].value = f}}

SelfRefContainers ==
    {c \in DOMAIN registry \ ExternalSet :
        FieldsOfFormat(c, TypeName(c)) \cup FieldsOfFormat(c, SeqOf(TypeName(c))) # {}}

FieldWrites(c, f) ==
    {i \in DOMAIN out : out[i].kind = "field" /\ out[i].path = <<c, f>>}

SelfRefsRendered ==
    \A c \in SelfRefContainers :
        /\ \A f \in FieldsOfFormat(c, TypeName(c)) :
              /\ \A i \in FieldWrites(c, f) : TypeToks(out[i]) = <<"Box<", c, ">">>
              /\ pc = "done" => FieldWrites(c, f) # {}
        /\ \A f \in FieldsOfFormat(c, SeqOf(TypeName(c))) :
              /\ \A i \in FieldWrites(c, f) : TypeToks(out[i]) = <<"Vec<", c, ">">>
              /\ pc = "done" => FieldWrites(c, f) # {}

\* How far the run has come: every step takes it further.
Progress ==
    Len(out) + idx + (IF pc = "start" THEN 0 ELSE 1) + (IF pc = "panic" THEN 1 ELSE 0)

Advances == Progress' > Progress

\* A run over valid inputs with a self-referring container stops only when
\* it is done.
RunsToDone ==
    (SelfRefContainers # {} /\ AllResolved /\ EnumsContiguous) =>
        (pc = "done" \/ ENABLED Next)

\* C3: in a full run over a registry with a container that is not external, a
\* field of it whose format is a TypeName of the container itself is rendered
\* with indirection (Box<Node>), a field whose format is a Seq of that
\* TypeName is rendered directly (Vec<Node>), and the run finishes: every
\* step advances it and it stops only when it is done.
C3_SelfReference == []SelfRefsRendered /\ []RunsToDone /\ [][Advances]_vars

\* A finished run that rendered both fields of a self-referring container.
C3_Witness ==
    /\ pc = "done"
    /\ \E c \in SelfRefContainers :
          /\ \E f \in FieldsOfFormat(c, TypeName(c)) : FieldWrites(c, f) # {}
          /\ \E f \in FieldsOfFormat(c, SeqOf(TypeName(c))) : FieldWrites(c, f) # {}

\* C4: when an enum's indices are not exactly 0..N-1, generation fails before
\* any output is produced: at the failure nothing has been written.
C4_NothingWrittenAtFailure == pc = "panic" => out = <<>>

\* The names that the output defines: the token after "struct " or "enum ".
DefinedIn(w) ==
    {w.toks[j + 1] : j \in {k \in DOMAIN w.toks : w.toks[k] \in {"struct ", "enum "}}}

DefinedNames == UNION {DefinedIn(out[i]) : i \in DOMAIN out}

\* C5: a container whose name is in the external-definition map, under any
\* module name, is never emitted locally: no struct or enum of that name is
\* written.
C5_ExternalNeverEmitted == DefinedNames \cap ExternalSet = {}

(***************************************************************************)
(* The preamble's declarations of the built-ins.                           *)
(***************************************************************************)
Written(toks) == Cardinality({i \in DOMAIN out : out[i].toks = toks})

BytesAlias == Written(<<"type Bytes = Vec<u8>;\n\n">>)

BytesImport == Written(<<"use serde_bytes::ByteBuf as Bytes;\n">>)

MapImport == Written(<<"use std::collections::BTreeMap as Map;\n">>)

PreambleWritten == pc \notin {"start", "error", "preamble"}

\* C6: the preamble omits a built-in whose name is an external name, in both
\* modes: with Bytes external neither the alias of Bytes nor the import of
\* serde_bytes is written, with Map external the import of BTreeMap is not
\* written; otherwise exactly one declaration of the built-in is written (for
\* Bytes the alias without derive macros, the import with them).
C6_BuiltinsOmittedWhenExternal ==
    /\ "Bytes" \in ExternalSet => BytesAlias = 0 /\ BytesImport = 0
    /\ "Map" \in ExternalSet => MapImport = 0
    /\ (PreambleWritten /\ "Bytes" \notin ExternalSet) =>
          /\ BytesAlias = (IF with_derive_macros THEN 0 ELSE 1)
          /\ BytesImport = (IF with_derive_macros THEN 1 ELSE 0)
    /\ (PreambleWritten /\ "Map" \notin ExternalSet) => MapImport = 1

\* Bytes external under the empty module name, without derive macros, after
\* the preamble and a container using Bytes have been written.
C6_Witness ==
    /\ pc = "done"
    /\ "" \in DOMAIN external_definitions
    /\ "Bytes" \in Range(external_definitions[""])
    /\ "Map" \notin ExternalSet
    /\ ~with_derive_macros
    /\ \E i \in DOMAIN out : out[i].kind = "field" /\ "Bytes" \in Range(out[i].toks)

(***************************************************************************)
(* Doc comments.                                                           *)
(***************************************************************************)
\* Whether a qualified path names a container, a field of a struct, a variant
\* of an enum or a field of a struct variant of the registry.
NamesElement(path) ==
    /\ Len(path) \in 1..3
    /\ path[1] \in DOMAIN registry
    /\ LET c == registry[path[1]]
           variantsNamed == {k \in DOMAIN c.variants : c.variants[k].name = path[2]}
       IN  CASE Len(path) = 1 -> TRUE
             [] Len(path) = 2 ->
                   \/ \E i \in DOMAIN c.fields : c.fields[i].name = path[2]
                   \/ variantsNamed # {}
             [] Len(path) = 3 ->
                   \E k \in variantsNamed :
                       \E i \in DOMAIN c.variants[k].value.fields :
                           c.variants[k].value.fields[i].name = path[3]

CommentWrites(path) == {i \in DOMAIN out : out[i].kind = "comment" /\ out[i].path = path}

ElementWrites(path) ==
    {i \in DOMAIN out : out[i].kind \in {"container", "field", "variant"} /\ out[i].path = path}

\* C7: a doc comment stored under a qualified path is emitted once, right
\* before the element the path names, with nothing between them, and nowhere
\* else; a path that names no element of the registry produces no output.
C7_CommentOnceAboveElement ==
    /\ \A i \in DOMAIN out :
          out[i].kind = "comment" =>
              /\ out[i].path \in DOMAIN comments
              /\ comments[out[i].path] \in Range(out[i].toks)
              /\ i + 1 \in ElementWrites(out[i].path)
    /\ \A path \in DOMAIN comments :
          /\ Cardinality(CommentWrites(path)) <= 1
          /\ ~NamesElement(path) => CommentWrites(path) = {}
          /\ \A j \in ElementWrites(path) : j - 1 \in CommentWrites(path)
          /\ (pc = "done" /\ NamesElement(path)) => Cardinality(CommentWrites(path)) = 1

\* A finished run with a comment on a field of a struct variant and a comment
\* whose path names nothing.
C7_Witness ==
    /\ pc = "done"
    /\ \E path \in DOMAIN comments : Len(path) = 3 /\ CommentWrites(path) # {}
    /\ \E path \in DOMAIN comments : ~NamesElement(path)

(***************************************************************************)
(* The known set and the order of emission.                                *)
(***************************************************************************)
\* The last write ends the definition of container name.
ContainerComplete(name) ==
    /\ out # <<>>
    /\ LET w == out[Len(out)]
       IN  /\ w.path = <<name>>
           /\ w.kind \in {"container", "close"}
           /\ w.toks[Len(w.toks)] \in {";\n\n", ");\n\n", "}\n\n"}

KnownIsPrefix ==
    pc \in {"container", "variants", "insert", "panic"} =>
        known_sizes = ExternalSet \cup {entries[j] : j \in 1..(idx - 1)}

KnownStep ==
    /\ known_sizes \subseteq known_sizes'
    /\ pc \in {"container", "variants"} => known_sizes' = known_sizes
    /\ known_sizes' # known_sizes =>
          \/ pc = "preamble" /\ known_sizes' = ExternalSet
          \/ /\ pc = "insert"
             /\ known_sizes' = known_sizes \cup {entries[idx]}
             /\ ContainerComplete(entries[idx])

\* C8: while the i-th name of the analyzer's order is rendered, the known set
\* is the external names and the names at the positions before i; the set
\* does not change while a container is rendered, a name is added only right
\* after its own container has been written in full, and none is removed.
C8_KnownSetInvariant == []KnownIsPrefix /\ [][KnownStep]_vars

\* A container after the second is being rendered, with external names given.
C8_Witness ==
    /\ pc = "variants"
    /\ idx >= 3
    /\ vpos > 0
    /\ ExternalSet # {}
    /\ Cardinality(known_sizes) > Cardinality(ExternalSet)

\* The names of the containers written, in the order of their writes.
RECURSIVE ContainersWritten(_)
ContainersWritten(ws) ==
    IF ws = <<>> THEN <<>>
    ELSE LET front == ContainersWritten(SubSeq(ws, 1, Len(ws) - 1))
             w == ws[Len(ws)]
         IN  IF w.kind = "container" THEN Append(front, w.path[1]) ELSE front

\* The number of containers whose rendering has begun.
Begun ==
    CASE pc \in {"start", "error", "preamble"} -> 0
      [] pc = "container" -> idx - 1
      [] pc \in {"variants", "insert", "panic"} -> idx
      [] pc = "done" -> Len(entries)

\* C9: the analysis and the ordering are complete before the first write, the
\* containers are then rendered once each in the analyzer's order, and when
\* the analysis returns an error the run stops with nothing written, not even
\* the preamble.
C9_AnalysisBeforeEmission ==
    /\ pc \in {"start", "error", "preamble"} => out = <<>>
    /\ out # <<>> =>
          /\ out[1].toks = <<"#![allow(unused_imports)]\n">>
          /\ Range(entries) = DOMAIN registry
          /\ Len(entries) = Cardinality(DOMAIN registry)
    /\ ContainersWritten(out) = SubSeq(entries, 1, Begun)

\* A finished run over three containers that the analyzer did not leave in
\* the order of their names.
C9_Witness ==
    /\ pc = "done"
    /\ Len(entries) >= 3
    /\ entries # Sorted(DOMAIN registry)
    /\ ContainersWritten(out) = entries

\* Every container comes after the containers it hard-depends on.
TopologicalOrder(order) ==
    \A i \in DOMAIN order :
        \A d \in HardRefs(registry[order[i]]) \ ExternalSet :
            \E j \in 1..(i - 1) : order[j] = d

\* C10: when the emission order places every container after all containers
\* it hard-depends on and every referenced name is a registry entry or an
\* external name, the output has no indirection: nothing is rendered as
\* Box<x>.
C10_NoBoxWhenTopological ==
    (pc \notin {"start", "error"} /\ TopologicalOrder(entries) /\ AllResolved) =>
        \A i \in DOMAIN out : "Box<" \notin Range(out[i].toks)

\* A finished run in a topological order, with hard dependencies on registry
\* entries and on an external name.
C10_Witness ==
    /\ pc = "done"
    /\ TopologicalOrder(entries)
    /\ AllResolved
    /\ \E n \in DOMAIN registry : HardRefs(registry[n]) \ ExternalSet # {}
    /\ \E n \in DOMAIN registry : HardRefs(registry[n]) \cap ExternalSet # {}

====
